---- MODULE Spec2Model ----
(***************************************************************************)
(* Enrollment and class-lifecycle handlers of the school-management        *)
(* backend: create_class, assign_teacher and update_student_grade          *)
(* (routes/manager.py),                                                    *)
(* enroll_course and cancel_enrollment (routes/student.py), the timing     *)
(* helpers (routes/helpers.py) and the Class / Schedule / Enrollment       *)
(* tables                                                                  *)
(* (models.py).                                                            *)
(*                                                                         *)
(* Conventions of the model                                                *)
(*  - a nullable column is a sequence: <<>> is NULL, <<v>> is the value v; *)
(*  - a date is a day number; day 0 is 2025-09-01, so days 0..29 lie in    *)
(*    month 9 of 2025, day 121 is 2025-12-31 and days 122..152 lie in      *)
(*    month 1 of 2026;                                                     *)
(*  - the time of the token clock is counted in units of 1200 seconds, so  *)
(*    the access-token lifetime of 3600 seconds is 3;                      *)
(*  - datetime.utcnow() stored in a column is the token Now: no handler   *)
(*    reads the value of a stored timestamp, only whether it is set;       *)
(*  - a score is counted in thousandths: 8500 is 8.5, 3999 is 3.999;       *)
(*  - a time of day is counted in minutes: 600 is 10:00;                   *)
(*  - max_capacity in a create_class request is a JSON number, counted in  *)
(*    tenths: 10 is 1, 4 is 0.4; the stored column is a whole number;      *)
(*  - the enum values of models.py are written in English                  *)
(*    ("Registered" for "Da dang ky", ...);                                *)
(*  - class_id is the position of the class in `classes` (autoincrement);  *)
(*    an enrollment_id is <<student_id, class_id, k>>, the k-th row         *)
(*    stored for the pair (the id is only ever used as an identity).       *)
(***************************************************************************)
EXTENDS Integers, Sequences, FiniteSets, TLC

\* ------------------------------------------------------------------ bounds
NumStudents == 2
MaxClasses == 1
MaxCap == 2
MaxDay == 1
NumProcs == 2
NumTeachers == 3
MaxScheduledClasses == 2
MaxTokens == 2
MaxClock == 5
MaxApprovals == 2
MaxForwarded == 2

Students == 1..NumStudents
ClassIds == 1..MaxClasses
Procs == 1..NumProcs
Teachers == 1..NumTeachers

\* ------------------------------------------------------------ enumerations
UserType == [STUDENT |-> "student", TEACHER |-> "teacher", MANAGER |-> "manager"]

ClassStatus == [OPEN |-> "Open", IN_PROGRESS |-> "InProgress", COMPLETED |-> "Completed"]

\* The members are REGISTERED, CANCELLED, COMPLETE and Failed: there is no
\* member named COMPLETED.
EnrollmentStatus ==
  [REGISTERED |-> "Registered", CANCELLED |-> "Cancelled",
   COMPLETE |-> "Completed", Failed |-> "Failed"]

\* ------------------------------------------------ catalog (read-only input)
\* Student.department_id; 0 stands for an unset department (falsy in Python).
StudentDepartment(s) == IF s <= 2 THEN 1 ELSE 2

\* The courses of the catalog and Course.department_id: course 3 belongs to
\* no department.
Courses == {1, 2, 3}
CourseDepartment(course_id) == IF course_id = 3 THEN 0 ELSE course_id

\* Teacher.department_id: teacher 3 belongs to no department.
TeacherDepartment(t) == IF t = 3 THEN 0 ELSE IF t <= 2 THEN 1 ELSE 2

\* ------------------------------------------------------------------ state
VARIABLES
  today,        \* datetime.utcnow().date()
  classes,      \* table classes: sequence of Class rows, class_id = index
  enrollments,  \* table enrollments: [<<student_id, class_id>> -> rows]
  req,          \* per worker: the request it serves, between its reads and its commit
  seat_kept,    \* history: the enrollment ids graded while Registered
  schedules,    \* table schedules: for each class_id, the set of its Schedule rows
  assign_req,   \* per worker: the assign_teacher request between its reads and its commit
  rolled_back,  \* history: the handlers whose commit was lost to a storage failure
  clock,        \* the time access tokens and Redis keys are measured against
  tokens,       \* the access tokens issued so far; the jti is the position
  blacklist,    \* Redis: for each jti, when its key blacklist:<jti> expires
  reached,      \* history: <<jti, logged out before>> of the requests that reached a handler
  APPROVALS,    \* proxy: the approval records; the approval id is the position
  forwarded     \* proxy: the calls sent to the backend, in order

\* The variables of the token registry.
auth_vars == <<clock, tokens, blacklist, reached>>

\* The variables of the tool proxy.
proxy_vars == <<APPROVALS, forwarded>>

vars == <<today, classes, enrollments, req, seat_kept, schedules, assign_req,
          rolled_back, auth_vars, proxy_vars>>

None == <<>>
Some(v) == <<v>>
Now == "utcnow"

Pairs == Students \X ClassIds

\* ----------------------------------------------------------------- helpers
MonthOf(d) ==
  IF d < 30 THEN 9 ELSE IF d < 61 THEN 10 ELSE IF d < 91 THEN 11
  ELSE IF d < 122 THEN 12 ELSE 1

YearOf(d) == IF d < 122 THEN 2025 ELSE 2026

get_current_semester(d) ==
  LET current_month == MonthOf(d) IN
  IF 1 <= current_month /\ current_month <= 5 THEN "HK2"
  ELSE IF 6 <= current_month /\ current_month <= 8 THEN "HKhe"
  ELSE "HK1"

get_current_academic_year(d) ==
  IF MonthOf(d) >= 9 THEN <<YearOf(d), YearOf(d) + 1>>
  ELSE <<YearOf(d) - 1, YearOf(d)>>

\* (ok, error_code) of validate_class_timing_constraints
validate_class_timing_constraints(class_obj, current_user_type, d) ==
  IF class_obj.start_date < d /\ current_user_type = UserType.STUDENT
    THEN "REGISTRATION_CLOSED"
  ELSE IF class_obj.end_date < d THEN "CLASS_ENDED"
  ELSE IF (class_obj.semester # get_current_semester(d)
           \/ class_obj.academic_year # get_current_academic_year(d))
          /\ current_user_type = UserType.STUDENT
    THEN "WRONG_SEMESTER"
  ELSE "OK"

Max(a, b) == IF a >= b THEN a ELSE b

\* The enrollment ids in use: the k-th row stored for a (student, class) pair.
EnrollmentIds ==
  UNION { { <<p[1], p[2], k>> : k \in 1..Len(enrollments[p]) } : p \in Pairs }

Row(eid) == enrollments[<<eid[1], eid[2]>>][eid[3]]

\* Number of rows of class cid whose status is st.
RowsWithStatus(cid, st) ==
  Cardinality({ eid \in EnrollmentIds : eid[2] = cid /\ Row(eid).status = st })

Idle == [pc |-> "idle"]

\* ------------------------------------------------------------------- Init
Init ==
  /\ today = 0
  /\ classes = <<>>
  /\ enrollments = [p \in Pairs |-> <<>>]
  /\ req = [p \in Procs |-> Idle]
  /\ seat_kept = {}
  /\ schedules = <<>>
  /\ assign_req = [p \in Procs |-> Idle]
  /\ rolled_back = {}
  /\ clock = 0
  /\ tokens = <<>>
  /\ blacklist = [jti \in 1..MaxTokens |-> None]
  /\ reached = {}
  /\ APPROVALS = <<>>
  /\ forwarded = <<>>

\* ------------------------------------------------------------ create_class
valid_semesters == {"HK1", "HK2", "HKhe"}

\* re.match(r'^\d{4}-\d{4}', academic_year) on "<y1>-<y2>"
AcademicYearMatches(ay) ==
  /\ 1000 <= ay[1] /\ ay[1] <= 9999
  /\ 1000 <= ay[2]

create_class_check(course_id, semester, academic_year, max_capacity, start_date, end_date) ==
  IF max_capacity = 0 THEN "MISSING_REQUIRED_FIELDS"
  ELSE IF course_id \notin Courses THEN "COURSE_NOT_FOUND"
  ELSE IF start_date >= end_date THEN "INVALID_DATES"
  ELSE IF start_date <= today THEN "INVALID_START_DATE"
  ELSE IF max_capacity <= 0 THEN "INVALID_CAPACITY"
  ELSE IF semester \notin valid_semesters THEN "INVALID_SEMESTER"
  ELSE IF ~AcademicYearMatches(academic_year) THEN "INVALID_ACADEMIC_YEAR"
  ELSE "OK"

\* A number stored in a column of type db.Integer: the database of
\* config.py (MySQL) rounds it to the nearest whole number, half away from
\* zero. The argument is counted in tenths.
IntegerColumn(tenths) ==
  IF tenths >= 0 THEN (tenths + 5) \div 10 ELSE 0 - ((5 - tenths) \div 10)

NewClass(course_id, semester, academic_year, max_capacity, start_date, end_date) ==
  [course_id |-> course_id, teacher_id |-> None, semester |-> semester,
   academic_year |-> academic_year, max_capacity |-> IntegerColumn(max_capacity),
   current_enrollment |-> 0, status |-> ClassStatus.OPEN,
   start_date |-> start_date, end_date |-> end_date]

\* datetime.strptime(text, '%H:%M').time() on the text "<h>:<m>", written
\* <<h, m>>: a time of day, counted in minutes; ValueError outside 00:00-23:59.
ParsesAsTime(hm) == hm[1] \in 0..23 /\ hm[2] \in 0..59

strptime_HM(hm) == hm[1] * 60 + hm[2]

\* Lines 166-172: the Schedule row of one schedule_data entry.
NewSchedule(schedule_data) ==
  [day_of_week |-> schedule_data.day_of_week,
   start_time |-> strptime_HM(schedule_data.start_time),
   end_time |-> strptime_HM(schedule_data.end_time)]

\* Lines 163-180: an entry that does not parse rolls the new class back.
create_class_schedules_code(schedule_list) ==
  IF \E i \in 1..Len(schedule_list) :
       \/ ~ParsesAsTime(schedule_list[i].start_time)
       \/ ~ParsesAsTime(schedule_list[i].end_time)
    THEN "INVALID_SCHEDULE_DATA" ELSE "OK"

\* A request that fails a check returns its error code before any write is
\* committed: it is no step of the store. The codes are the values of the
\* *_check operators.
create_class(course_id, semester, academic_year, max_capacity, start_date, end_date, schedule_list) ==
  /\ create_class_check(course_id, semester, academic_year,
                        max_capacity, start_date, end_date) = "OK"
  /\ create_class_schedules_code(schedule_list) = "OK"
  /\ classes' = Append(classes, NewClass(course_id, semester, academic_year,
                                         max_capacity, start_date, end_date))
  /\ schedules' = Append(schedules,
                         { NewSchedule(schedule_list[i]) : i \in 1..Len(schedule_list) })
  /\ UNCHANGED <<today, enrollments, req,
                 seat_kept, assign_req, rolled_back, auth_vars, proxy_vars>>

\* The periods a create_class request may name: the term the modelled days
\* fall in, another term, and a semester name outside valid_semesters.
PeriodInputs ==
  { <<"HK1", <<2025, 2026>>>>, <<"HK2", <<2025, 2026>>>>, <<"HK3", <<2025, 2026>>>> }

\* max_capacity of a request: negative, zero, a fraction below one half
\* and the whole numbers up to MaxCap.
CapacityInputs == {-10, 0, 4} \cup { 10 * k : k \in 1..MaxCap }

\* create_class requests without schedules.
CreateClass ==
  /\ Len(classes) < MaxClasses
  /\ \E course_id \in Courses \cup {4}, period \in PeriodInputs,
        max_capacity \in CapacityInputs, start_date \in today..(today + 1), len \in 0..1 :
       create_class(course_id, period[1], period[2], max_capacity,
                    start_date, start_date + len, <<>>)

\* create_class requests for two-seat classes of course 1, the course of
\* the students' department.
CreateClassTerm ==
  /\ Len(classes) < MaxClasses
  /\ \E period \in PeriodInputs, start_date \in today..(today + 1), len \in 0..1 :
       create_class(1, period[1], period[2], 20, start_date, start_date + len, <<>>)

\* The schedule lists a create_class request may carry: none, slots that
\* touch at 10:00 or overlap by a minute, another day, a slot whose end
\* precedes its start, two slots, and a time that does not parse.
Slot(day, h1, m1, h2, m2) ==
  [day_of_week |-> day, start_time |-> <<h1, m1>>, end_time |-> <<h2, m2>>]

ScheduleInputs ==
  { <<>>,
    <<Slot("Monday", 8, 0, 10, 0)>>,
    <<Slot("Monday", 10, 0, 12, 0)>>,
    <<Slot("Monday", 8, 0, 10, 1)>>,
    <<Slot("Tuesday", 8, 0, 10, 0)>>,
    <<Slot("Monday", 12, 0, 9, 0)>>,
    <<Slot("Tuesday", 10, 0, 12, 0), Slot("Monday", 9, 0, 11, 0)>>,
    <<Slot("Monday", 24, 0, 25, 0)>> }

\* create_class requests with schedules, for one-seat classes of the two
\* valid terms.
CreateClassScheduled ==
  /\ Len(classes) < MaxScheduledClasses
  /\ \E course_id \in Courses, semester \in {"HK1", "HK2"},
        schedule_list \in ScheduleInputs :
       create_class(course_id, semester, <<2025, 2026>>, 10,
                    today + 1, today + 2, schedule_list)

\* ------------------------------------------------------------ update_class
\* PUT /manager/update-class/<class_id>, the status field. The clients in
\* ai_agent_mcp call the endpoint; its handler follows the rules for
\* class-status transitions: Open -> InProgress / Completed, Completed only
\* once the current date has reached end_date, back to Open only while the
\* current date is not after start_date; the seat counter is not touched.
update_class_status_check(cid, status) ==
  IF cid \notin 1..Len(classes) THEN "CLASS_NOT_FOUND"
  ELSE IF status \notin {ClassStatus.OPEN, ClassStatus.IN_PROGRESS, ClassStatus.COMPLETED}
    THEN "INVALID_STATUS"
  ELSE IF status = classes[cid].status THEN "OK"
  ELSE IF status = ClassStatus.COMPLETED /\ today < classes[cid].end_date
    THEN "INVALID_STATUS_TRANSITION"
  ELSE IF status = ClassStatus.OPEN /\ today > classes[cid].start_date
    THEN "INVALID_STATUS_TRANSITION"
  ELSE IF status = ClassStatus.IN_PROGRESS /\ classes[cid].status = ClassStatus.COMPLETED
    THEN "INVALID_STATUS_TRANSITION"
  ELSE "OK"

\* An update that also resets the seat counter.
update_class_status_resetting_counter(cid, status) ==
  /\ update_class_status_check(cid, status) = "OK"
  /\ classes' = [classes EXCEPT ![cid].status = status, ![cid].current_enrollment = 0]
  /\ UNCHANGED <<today, enrollments, req, seat_kept, schedules, assign_req,
                 rolled_back, auth_vars, proxy_vars>>

update_class_status(cid, status) ==
  /\ update_class_status_check(cid, status) = "OK"
  /\ classes' = [classes EXCEPT ![cid].status = status]
  /\ UNCHANGED <<today, enrollments, req, seat_kept, schedules, assign_req,
                 rolled_back, auth_vars, proxy_vars>>

UpdateClassStatus ==
  \E cid \in 0..(MaxClasses + 1),
     status \in {ClassStatus.OPEN, ClassStatus.IN_PROGRESS, ClassStatus.COMPLETED, "Closed"} :
    update_class_status(cid, status)

\* ----------------------------------------------------------- enroll_course
\* A lookup that finds no row.
FirstRow_none(s, cid) == 0

\* Enrollment.query.filter_by(student_id, class_id).first(): 0 when no row.
FirstRow(s, cid) == IF Len(enrollments[<<s, cid>>]) > 0 THEN 1 ELSE 0

\* A capacity check that lets a request through when the class is exactly full.
ClassFull_off_by_one(class_obj) == class_obj.current_enrollment > class_obj.max_capacity

\* Line 80.
ClassFull(class_obj) == class_obj.current_enrollment >= class_obj.max_capacity

\* A check that forgets the failed courses.
AlreadyResolved_completed_only(status) == status \in {"Completed"}

\* Line 126: existing_enrollment.status in ['Da hoan thanh', 'Rot mon'].
AlreadyResolved(status) == status \in {"Completed", "Failed"}

\* The checks without the department gate.
enroll_course_check_no_department_gate(s, cid) ==
  IF cid = 0 THEN "MISSING_CLASS_ID"
  ELSE IF cid \notin 1..Len(classes) THEN "CLASS_NOT_FOUND"
  ELSE
    LET class_obj == classes[cid]
        timing == validate_class_timing_constraints(class_obj, UserType.STUDENT, today)
        k == FirstRow(s, cid)
    IN
    IF class_obj.status # ClassStatus.OPEN THEN "CLASS_NOT_OPEN"
    ELSE IF ClassFull(class_obj) THEN "CLASS_FULL"
    ELSE IF timing # "OK" THEN timing
    ELSE IF k # 0 /\ enrollments[<<s, cid>>][k].status = EnrollmentStatus.REGISTERED
      THEN "ALREADY_ENROLLED"
    ELSE IF k # 0 /\ AlreadyResolved(enrollments[<<s, cid>>][k].status)
      THEN "COURSE_COMPLETED"
    ELSE "OK"

\* The checks with the two null-department gates but without the comparison
\* of the two departments.
enroll_course_check_departments_not_compared(s, cid) ==
  IF cid = 0 THEN "MISSING_CLASS_ID"
  ELSE IF cid \notin 1..Len(classes) THEN "CLASS_NOT_FOUND"
  ELSE
    LET class_obj == classes[cid]
        timing == validate_class_timing_constraints(class_obj, UserType.STUDENT, today)
        k == FirstRow(s, cid)
    IN
    IF class_obj.status # ClassStatus.OPEN THEN "CLASS_NOT_OPEN"
    ELSE IF ClassFull(class_obj) THEN "CLASS_FULL"
    ELSE IF timing # "OK" THEN timing
    ELSE IF StudentDepartment(s) = 0 THEN "STUDENT_NO_DEPARTMENT"
    ELSE IF CourseDepartment(class_obj.course_id) = 0 THEN "COURSE_NO_DEPARTMENT"
    ELSE IF k # 0 /\ enrollments[<<s, cid>>][k].status = EnrollmentStatus.REGISTERED
      THEN "ALREADY_ENROLLED"
    ELSE IF k # 0 /\ AlreadyResolved(enrollments[<<s, cid>>][k].status)
      THEN "COURSE_COMPLETED"
    ELSE "OK"

\* Lines 63-131: the checks, on the rows as the request reads them.
\* "OK" when the request goes on to write.
enroll_course_check(s, cid) ==
  IF cid = 0 THEN "MISSING_CLASS_ID"
  ELSE IF cid \notin 1..Len(classes) THEN "CLASS_NOT_FOUND"
  ELSE
    LET class_obj == classes[cid]
        timing == validate_class_timing_constraints(class_obj, UserType.STUDENT, today)
        k == FirstRow(s, cid)
    IN
    IF class_obj.status # ClassStatus.OPEN THEN "CLASS_NOT_OPEN"
    ELSE IF ClassFull(class_obj) THEN "CLASS_FULL"
    ELSE IF timing # "OK" THEN timing
    ELSE IF StudentDepartment(s) = 0 THEN "STUDENT_NO_DEPARTMENT"
    ELSE IF CourseDepartment(class_obj.course_id) = 0 THEN "COURSE_NO_DEPARTMENT"
    ELSE IF StudentDepartment(s) # CourseDepartment(class_obj.course_id)
      THEN "DEPARTMENT_MISMATCH"
    ELSE IF k # 0 /\ enrollments[<<s, cid>>][k].status = EnrollmentStatus.REGISTERED
      THEN "ALREADY_ENROLLED"
    ELSE IF k # 0 /\ AlreadyResolved(enrollments[<<s, cid>>][k].status)
      THEN "COURSE_COMPLETED"
    ELSE "OK"

\* What the request holds in its session once the checks have passed: the
\* class row's counter and the enrollment row it found (0: none).
EnrollSnapshot(s, cid) ==
  [current_enrollment |-> classes[cid].current_enrollment, existing |-> FirstRow(s, cid)]

\* A table without the unique constraint.
unique_student_class_absent(rows) == TRUE

\* UniqueConstraint('StudentID', 'ClassID'): a row for the pair can be
\* inserted only when the table holds none.
unique_student_class(rows) == Len(rows) = 0

\* The row Enrollment(student_id, class_id, status, enrollment_date) inserts;
\* the column default fills cancellation_date with utcnow, grade and score
\* stay NULL.
NewEnrollment ==
  [status |-> EnrollmentStatus.REGISTERED, enrollment_date |-> Some(Now),
   cancellation_date |-> Some(Now), score |-> None, grade |-> None]

\* A re-enrollment that leaves the status as it was.
ReEnrolled_status_kept(row) ==
  [row EXCEPT !.enrollment_date = Some(Now), !.cancellation_date = None]

\* Lines 132-136: the re-enrolled row.
ReEnrolled(row) ==
  [row EXCEPT !.status = EnrollmentStatus.REGISTERED,
              !.enrollment_date = Some(Now),
              !.cancellation_date = None]

\* Lines 132-149: the writes and the commit, given what the request read.
\* An insert that breaks the unique constraint fails the commit: everything
\* is rolled back and the handler answers ENROLL_FAILED.
enroll_course_commit_code(s, cid, snap) ==
  IF snap.existing = 0 /\ ~unique_student_class(enrollments[<<s, cid>>])
    THEN "ENROLL_FAILED" ELSE "OK"

\* A failed commit whose counter update is not rolled back.
enroll_course_commit_no_rollback(s, cid, snap) ==
  LET rows == enrollments[<<s, cid>>] IN
  /\ enrollments' =
       IF enroll_course_commit_code(s, cid, snap) # "OK" THEN enrollments
       ELSE [enrollments EXCEPT ![<<s, cid>>] =
               IF snap.existing = 0 THEN Append(rows, NewEnrollment)
               ELSE [rows EXCEPT ![snap.existing] = ReEnrolled(rows[snap.existing])]]
  /\ classes' = [classes EXCEPT ![cid].current_enrollment =
                                   snap.current_enrollment + 1]

enroll_course_commit(s, cid, snap) ==
  LET rows == enrollments[<<s, cid>>] IN
  IF enroll_course_commit_code(s, cid, snap) # "OK"
    THEN UNCHANGED <<classes, enrollments>>
    ELSE /\ enrollments' =
              [enrollments EXCEPT ![<<s, cid>>] =
                 IF snap.existing = 0 THEN Append(rows, NewEnrollment)
                 ELSE [rows EXCEPT ![snap.existing] = ReEnrolled(rows[snap.existing])]]
         /\ classes' = [classes EXCEPT ![cid].current_enrollment =
                                          snap.current_enrollment + 1]

\* One enroll_course request, run from its first line to its response.
enroll_course(s, cid) ==
  /\ enroll_course_check(s, cid) = "OK"
  /\ enroll_course_commit(s, cid, EnrollSnapshot(s, cid))
  /\ UNCHANGED <<today, req, seat_kept,
                 schedules, assign_req, rolled_back, auth_vars, proxy_vars>>

Enroll == \E s \in Students, cid \in 0..(MaxClasses + 1) : enroll_course(s, cid)

\* ------------------------------------------------------- cancel_enrollment
CancellationGraceDays == 14

\* A lookup that does not filter by status.
FirstRegistered_any_status(s, cid) ==
  IF Len(enrollments[<<s, cid>>]) > 0 THEN 1 ELSE 0

\* Enrollment.query.filter_by(student_id, class_id, status=REGISTERED).first()
FirstRegistered(s, cid) ==
  LET ks == { k \in 1..Len(enrollments[<<s, cid>>]) :
                enrollments[<<s, cid>>][k].status = EnrollmentStatus.REGISTERED }
  IN IF ks = {} THEN 0 ELSE CHOOSE k \in ks : \A j \in ks : k <= j

\* Checks whose cancellation window closes a day early.
cancel_enrollment_check_window_exclusive(s, cid) ==
  IF cid = 0 THEN "MISSING_CLASS_ID"
  ELSE IF cid \notin 1..Len(classes) THEN "CLASS_NOT_FOUND"
  ELSE
    LET class_obj == classes[cid]
        k == FirstRegistered(s, cid)
    IN
    IF class_obj.status \notin {ClassStatus.OPEN, ClassStatus.IN_PROGRESS}
      THEN "CANCELLATION_NOT_ALLOWED"
    ELSE IF k = 0 THEN "NOT_ENROLLED"
    ELSE IF today >= class_obj.start_date
            /\ today - class_obj.start_date >= CancellationGraceDays
      THEN "CANCELLATION_PERIOD_EXPIRED"
    ELSE IF enrollments[<<s, cid>>][k].grade # None
            \/ enrollments[<<s, cid>>][k].score # None
      THEN "GRADE_ASSIGNED"
    ELSE IF class_obj.semester # get_current_semester(today)
            \/ class_obj.academic_year # get_current_academic_year(today)
      THEN "WRONG_ACADEMIC_PERIOD"
    ELSE "OK"

\* Lines 180-253.
cancel_enrollment_check(s, cid) ==
  IF cid = 0 THEN "MISSING_CLASS_ID"
  ELSE IF cid \notin 1..Len(classes) THEN "CLASS_NOT_FOUND"
  ELSE
    LET class_obj == classes[cid]
        k == FirstRegistered(s, cid)
    IN
    IF class_obj.status \notin {ClassStatus.OPEN, ClassStatus.IN_PROGRESS}
      THEN "CANCELLATION_NOT_ALLOWED"
    ELSE IF k = 0 THEN "NOT_ENROLLED"
    ELSE IF today >= class_obj.start_date
            /\ today - class_obj.start_date > CancellationGraceDays
      THEN "CANCELLATION_PERIOD_EXPIRED"
    ELSE IF enrollments[<<s, cid>>][k].grade # None
            \/ enrollments[<<s, cid>>][k].score # None
      THEN "GRADE_ASSIGNED"
    ELSE IF class_obj.semester # get_current_semester(today)
            \/ class_obj.academic_year # get_current_academic_year(today)
      THEN "WRONG_ACADEMIC_PERIOD"
    ELSE "OK"

CancelSnapshot(s, cid) ==
  [current_enrollment |-> classes[cid].current_enrollment,
   existing |-> FirstRegistered(s, cid)]

\* A cancellation that leaves the row Registered.
Cancelled_status_kept(row) == [row EXCEPT !.cancellation_date = Some(Now)]

\* Lines 255-257.
Cancelled(row) ==
  [row EXCEPT !.status = EnrollmentStatus.CANCELLED,
              !.cancellation_date = Some(Now)]

\* A decrement without the floor at 0.
Decremented_unfloored(current_enrollment) == current_enrollment - 1

\* A cancellation that leaves the counter as it was.
Decremented_not(current_enrollment) == current_enrollment

\* Line 260: the counter the request assigns, from the counter it read.
Decremented(current_enrollment) == Max(0, current_enrollment - 1)

\* A cancellation whose commit stores the enrollment row without the counter.
cancel_enrollment_commit_row_only(s, cid, snap) ==
  LET rows == enrollments[<<s, cid>>] IN
  /\ enrollments' = [enrollments EXCEPT ![<<s, cid>>] =
                       [rows EXCEPT ![snap.existing] = Cancelled(rows[snap.existing])]]
  /\ classes' = classes

\* Lines 255-262. The session writes the counter only when the assigned
\* value differs from the one it loaded.
cancel_enrollment_commit(s, cid, snap) ==
  LET rows == enrollments[<<s, cid>>]
      counter == Decremented(snap.current_enrollment)
  IN
  /\ enrollments' = [enrollments EXCEPT ![<<s, cid>>] =
                       [rows EXCEPT ![snap.existing] = Cancelled(rows[snap.existing])]]
  /\ classes' = IF counter = snap.current_enrollment THEN classes
                ELSE [classes EXCEPT ![cid].current_enrollment = counter]

\* One cancel_enrollment request, run from its first line to its response.
cancel_enrollment(s, cid) ==
  /\ cancel_enrollment_check(s, cid) = "OK"
  /\ cancel_enrollment_commit(s, cid, CancelSnapshot(s, cid))
  /\ UNCHANGED <<today, req, seat_kept,
                 schedules, assign_req, rolled_back, auth_vars, proxy_vars>>

Cancel == \E s \in Students, cid \in 0..(MaxClasses + 1) : cancel_enrollment(s, cid)

\* ---------------------------------------------------- update_student_grade
\* Lines 709-724: the letter grade and the name of the EnrollmentStatus
\* member the branch reads.
score_to_grade(score) ==
  IF score >= 8500 THEN [grade |-> "A", member |-> "COMPLETED"]
  ELSE IF score >= 7000 THEN [grade |-> "B", member |-> "COMPLETED"]
  ELSE IF score >= 5500 THEN [grade |-> "C", member |-> "COMPLETED"]
  ELSE IF score >= 4000 THEN [grade |-> "D", member |-> "COMPLETED"]
  ELSE [grade |-> "F", member |-> "Failed"]

\* Reading a member the enum does not define raises AttributeError.
HasMember(enum, member) == member \in DOMAIN enum

\* Lines 684-724: "OK" when the request goes on to write. A score of 0 is
\* falsy, so `not data.get('score')` reports it as a missing field; an
\* AttributeError is caught by `except Exception` (UPDATE_GRADE_FAILED).
update_student_grade_check(eid, score) ==
  IF score = 0 THEN "MISSING_REQUIRED_FIELDS"
  ELSE IF eid \notin EnrollmentIds THEN "ENROLLMENT_NOT_FOUND"
  ELSE IF score < 0 \/ score > 10000 THEN "INVALID_SCORE"
  ELSE IF ~HasMember(EnrollmentStatus, score_to_grade(score).member)
    THEN "UPDATE_GRADE_FAILED"
  ELSE "OK"

\* Lines 726-729.
Graded(row, score) ==
  [row EXCEPT !.score = Some(score),
              !.grade = Some(score_to_grade(score).grade),
              !.status = EnrollmentStatus[score_to_grade(score).member]]

\* A grading that gives the seat back to the class.
update_student_grade_releasing_seat(eid, score) ==
  /\ update_student_grade_check(eid, score) = "OK"
  /\ enrollments' = [enrollments EXCEPT ![<<eid[1], eid[2]>>][eid[3]] =
                       Graded(Row(eid), score)]
  /\ classes' = [classes EXCEPT ![eid[2]].current_enrollment =
                                   Max(0, classes[eid[2]].current_enrollment - 1)]
  /\ seat_kept' = seat_kept
  /\ UNCHANGED <<today, req, schedules, assign_req, rolled_back, auth_vars, proxy_vars>>

\* Lines 684-731, one request from its first line to its response.
update_student_grade(eid, score) ==
  /\ update_student_grade_check(eid, score) = "OK"
  /\ enrollments' = [enrollments EXCEPT ![<<eid[1], eid[2]>>][eid[3]] =
                       Graded(Row(eid), score)]
  /\ seat_kept' = IF Row(eid).status = EnrollmentStatus.REGISTERED
                    THEN seat_kept \cup {eid} ELSE seat_kept
  /\ UNCHANGED <<today, classes, req,
                 schedules, assign_req, rolled_back, auth_vars, proxy_vars>>

\* Scores a grade request may carry, in thousandths: the bounds of the
\* accepted range, the grade thresholds and their neighbours.
ScoreInputs == {-10, 0, 3999, 4000, 5500, 7000, 8500, 10000, 10010}

Finalize ==
  \E s \in Students, cid \in ClassIds, score \in ScoreInputs :
    \E k \in 1..(Len(enrollments[<<s, cid>>]) + 1) :
      update_student_grade(<<s, cid, k>>, score)

\* ------------------------------------------------------ concurrent workers
\* The server handles requests in parallel, one database session each. A
\* request reads the rows (the checks), then flushes its writes and commits;
\* other sessions may commit in between. What it assigns is computed from
\* the values it read: the UPDATE of the counter carries the value
\* current_enrollment + 1 (or max(0, current_enrollment - 1)) as a literal.
Pending(op, s, cid, snap) ==
  [pc |-> "pending", op |-> op, student_id |-> s, class_id |-> cid,
   read |-> snap.current_enrollment, existing |-> snap.existing]

SnapOf(r) == [current_enrollment |-> r.read, existing |-> r.existing]

\* enroll_course, lines 63-131: the reads and the checks.
enroll_course_begin(p, s, cid) ==
  /\ req[p].pc = "idle"
  /\ enroll_course_check(s, cid) = "OK"
  /\ req' = [req EXCEPT ![p] = Pending("enroll", s, cid, EnrollSnapshot(s, cid))]
  /\ UNCHANGED <<today, classes, enrollments, seat_kept,
                 schedules, assign_req, rolled_back, auth_vars, proxy_vars>>

\* enroll_course, lines 132-173: the writes, the commit and the response.
enroll_course_end(p) ==
  /\ req[p].pc = "pending" /\ req[p].op = "enroll"
  /\ enroll_course_commit(req[p].student_id, req[p].class_id, SnapOf(req[p]))
  /\ req' = [req EXCEPT ![p] = Idle]
  /\ UNCHANGED <<today, seat_kept, schedules,
                 assign_req, rolled_back, auth_vars, proxy_vars>>

\* cancel_enrollment, lines 180-253.
cancel_enrollment_begin(p, s, cid) ==
  /\ req[p].pc = "idle"
  /\ cancel_enrollment_check(s, cid) = "OK"
  /\ req' = [req EXCEPT ![p] = Pending("cancel", s, cid, CancelSnapshot(s, cid))]
  /\ UNCHANGED <<today, classes, enrollments, seat_kept,
                 schedules, assign_req, rolled_back, auth_vars, proxy_vars>>

\* cancel_enrollment, lines 255-284.
cancel_enrollment_end(p) ==
  /\ req[p].pc = "pending" /\ req[p].op = "cancel"
  /\ cancel_enrollment_commit(req[p].student_id, req[p].class_id, SnapOf(req[p]))
  /\ req' = [req EXCEPT ![p] = Idle]
  /\ UNCHANGED <<today, seat_kept, schedules,
                 assign_req, rolled_back, auth_vars, proxy_vars>>

EnrollBegin == \E p \in Procs, s \in Students, cid \in ClassIds : enroll_course_begin(p, s, cid)
EnrollEnd == \E p \in Procs : enroll_course_end(p)
CancelBegin == \E p \in Procs, s \in Students, cid \in ClassIds : cancel_enrollment_begin(p, s, cid)
CancelEnd == \E p \in Procs : cancel_enrollment_end(p)

\* enroll_course, lines 149 and 167-173: db.session.commit() raises (the
\* connection to the database is lost). Nothing of the transaction is
\* stored, the session is rolled back and the handler answers ENROLL_FAILED
\* with status 500.
enroll_course_rollback(p) ==
  /\ req[p].pc = "pending" /\ req[p].op = "enroll"
  /\ req' = [req EXCEPT ![p] = Idle]
  /\ rolled_back' = rolled_back \cup {"ENROLL_FAILED"}
  /\ UNCHANGED <<today, classes, enrollments, seat_kept, schedules, assign_req, auth_vars, proxy_vars>>

\* cancel_enrollment, lines 262 and 277-284: the same for a cancellation,
\* answered CANCEL_ENROLLMENT_FAILED with status 500.
cancel_enrollment_rollback(p) ==
  /\ req[p].pc = "pending" /\ req[p].op = "cancel"
  /\ req' = [req EXCEPT ![p] = Idle]
  /\ rolled_back' = rolled_back \cup {"CANCEL_ENROLLMENT_FAILED"}
  /\ UNCHANGED <<today, classes, enrollments, seat_kept, schedules, assign_req, auth_vars, proxy_vars>>

EnrollRollback == \E p \in Procs : enroll_course_rollback(p)
CancelRollback == \E p \in Procs : cancel_enrollment_rollback(p)

\* ---------------------------------------------------------- assign_teacher
\* A comparison that counts slots touching at their boundary as a conflict.
time_conflict_closed(new_schedule, conflict_schedule) ==
  /\ new_schedule.day_of_week = conflict_schedule.day_of_week
  /\ new_schedule.start_time <= conflict_schedule.end_time
  /\ new_schedule.end_time >= conflict_schedule.start_time

\* Lines 289-291: the test on one pair of Schedule rows.
time_conflict(new_schedule, conflict_schedule) ==
  /\ new_schedule.day_of_week = conflict_schedule.day_of_week
  /\ new_schedule.start_time < conflict_schedule.end_time
  /\ new_schedule.end_time > conflict_schedule.start_time

\* A query that looks only at the teacher's classes of other terms.
conflicting_classes_other_terms(teacher_id, cid) ==
  { c \in 1..Len(classes) :
      /\ schedules[c] # {}
      /\ classes[c].teacher_id = Some(teacher_id)
      /\ classes[c].semester # classes[cid].semester
      /\ c # cid }

\* Lines 274-279: Class.query.join(Schedule).filter(...): the other classes
\* of the teacher in the same semester and academic year that have a
\* schedule.
conflicting_classes(teacher_id, cid) ==
  { c \in 1..Len(classes) :
      /\ schedules[c] # {}
      /\ classes[c].teacher_id = Some(teacher_id)
      /\ classes[c].semester = classes[cid].semester
      /\ classes[c].academic_year = classes[cid].academic_year
      /\ c # cid }

\* Lines 282-301: the loops over the schedules of the class and of each
\* conflicting class.
has_schedule_conflict(teacher_id, cid) ==
  \E conflict_class \in conflicting_classes(teacher_id, cid) :
    \E new_schedule \in schedules[cid], conflict_schedule \in schedules[conflict_class] :
      time_conflict(new_schedule, conflict_schedule)

\* assign_teacher's checks without the three department checks.
assign_teacher_check_no_department_gate(cid, teacher_id) ==
  IF cid = 0 \/ teacher_id = 0 THEN "MISSING_REQUIRED_FIELDS"
  ELSE IF cid \notin 1..Len(classes) THEN "CLASS_NOT_FOUND"
  ELSE IF teacher_id \notin Teachers THEN "TEACHER_NOT_FOUND"
  ELSE IF has_schedule_conflict(teacher_id, cid) THEN "SCHEDULE_CONFLICT"
  ELSE "OK"

\* Lines 226-301: "OK" when the request goes on to write. An id of 0 is
\* falsy, so `not data.get(field)` reports it as a missing field.
assign_teacher_check(cid, teacher_id) ==
  IF cid = 0 \/ teacher_id = 0 THEN "MISSING_REQUIRED_FIELDS"
  ELSE IF cid \notin 1..Len(classes) THEN "CLASS_NOT_FOUND"
  ELSE IF teacher_id \notin Teachers THEN "TEACHER_NOT_FOUND"
  ELSE IF TeacherDepartment(teacher_id) = 0 THEN "TEACHER_NO_DEPARTMENT"
  ELSE IF CourseDepartment(classes[cid].course_id) = 0 THEN "COURSE_NO_DEPARTMENT"
  ELSE IF TeacherDepartment(teacher_id) # CourseDepartment(classes[cid].course_id)
    THEN "DEPARTMENT_MISMATCH"
  ELSE IF has_schedule_conflict(teacher_id, cid) THEN "SCHEDULE_CONFLICT"
  ELSE "OK"

\* Lines 303-328: what the request answers. After the commit the success
\* response reads teacher_dept, a local that is bound only in the branch of
\* the department mismatch: UnboundLocalError, caught by `except Exception`,
\* whose rollback comes after the commit.
assign_teacher_response(cid, teacher_id) ==
  IF assign_teacher_check(cid, teacher_id) = "OK"
    THEN "ASSIGN_TEACHER_FAILED"
    ELSE assign_teacher_check(cid, teacher_id)

\* Lines 303-305. The session writes the column only when the assigned
\* value differs from the one it loaded.
assign_teacher_commit(cid, teacher_id, loaded) ==
  classes' = IF Some(teacher_id) = loaded THEN classes
             ELSE [classes EXCEPT ![cid].teacher_id = Some(teacher_id)]

\* One assign_teacher request, run from its first line to its response.
assign_teacher(cid, teacher_id) ==
  /\ assign_teacher_check(cid, teacher_id) = "OK"
  /\ assign_teacher_commit(cid, teacher_id, classes[cid].teacher_id)
  /\ UNCHANGED <<today, enrollments, req, seat_kept,
                 schedules, assign_req, rolled_back, auth_vars, proxy_vars>>

AssignTeacher ==
  \E cid \in 0..(MaxScheduledClasses + 1), teacher_id \in 0..(NumTeachers + 1) :
    assign_teacher(cid, teacher_id)

\* assign_teacher, lines 226-301: the reads and the checks.
assign_teacher_begin(p, cid, teacher_id) ==
  /\ assign_req[p].pc = "idle"
  /\ assign_teacher_check(cid, teacher_id) = "OK"
  /\ assign_req' = [assign_req EXCEPT ![p] =
                      [pc |-> "pending", class_id |-> cid, teacher_id |-> teacher_id,
                       loaded |-> classes[cid].teacher_id]]
  /\ UNCHANGED <<today, classes, enrollments, req,
                 seat_kept, schedules, rolled_back, auth_vars, proxy_vars>>

\* assign_teacher, lines 303-328: the write, the commit and the response.
assign_teacher_end(p) ==
  /\ assign_req[p].pc = "pending"
  /\ assign_teacher_commit(assign_req[p].class_id, assign_req[p].teacher_id,
                           assign_req[p].loaded)
  /\ assign_req' = [assign_req EXCEPT ![p] = Idle]
  /\ UNCHANGED <<today, enrollments, req,
                 seat_kept, schedules, rolled_back, auth_vars, proxy_vars>>

AssignTeacherBegin ==
  \E p \in Procs, cid \in 1..MaxScheduledClasses, teacher_id \in Teachers :
    assign_teacher_begin(p, cid, teacher_id)
AssignTeacherEnd == \E p \in Procs : assign_teacher_end(p)

\* ----------------------------------------------------- tokens and logout
\* config.py: the lifetime of an access token.
JWT_ACCESS_TOKEN_EXPIRES == 3

\* create_access_token (auth.py, login and refresh): no expires_delta is
\* passed, so the token expires JWT_ACCESS_TOKEN_EXPIRES after it is issued.
create_access_token == [exp |-> clock + JWT_ACCESS_TOKEN_EXPIRES]

\* @jwt_required(): the token was issued by this server and has not expired.
jwt_required(jti) == jti \in 1..Len(tokens) /\ clock < tokens[jti].exp

\* redis_client.get("blacklist:<jti>"): the key is there until its time to
\* live has run out.
redis_get(jti) == blacklist[jti] # None /\ clock < blacklist[jti][1]

\* A registry whose keys live for one unit of time.
blacklist_token_short_lived(jti, expires_delta) ==
  blacklist' = [blacklist EXCEPT ![jti] = Some(clock + 1)]

\* blacklist_token: redis_client.setex(key, expires_delta, "true").
blacklist_token(jti, expires_delta) ==
  blacklist' = [blacklist EXCEPT ![jti] = Some(clock + expires_delta)]

\* What token_required answers before the handler: the request is let
\* through only with "OK".
token_required(jti) ==
  IF ~jwt_required(jti) THEN "UNAUTHORIZED"
  ELSE IF redis_get(jti) THEN "TOKEN_REVOKED"
  ELSE "OK"

\* POST /login or /refresh: an access token is issued.
login ==
  /\ Len(tokens) < MaxTokens
  /\ tokens' = Append(tokens, create_access_token)
  /\ UNCHANGED <<today, classes, enrollments, req, seat_kept, schedules, assign_req,
                 rolled_back, clock, blacklist, reached, proxy_vars>>

\* POST /logout with the token jti, answered "Successfully logged out".
logout(jti) ==
  /\ jwt_required(jti)
  /\ blacklist_token(jti, JWT_ACCESS_TOKEN_EXPIRES)
  /\ UNCHANGED <<today, classes, enrollments, req, seat_kept, schedules, assign_req,
                 rolled_back, clock, tokens, reached, proxy_vars>>

Logout == \E jti \in 1..MaxTokens : logout(jti)

\* A request to an endpoint behind token_required that reaches its handler.
Request ==
  \E jti \in 0..MaxTokens :
    /\ token_required(jti) = "OK"
    /\ reached' = reached \cup {<<jti, blacklist[jti] # None>>}
    /\ UNCHANGED <<today, classes, enrollments, req, seat_kept, schedules, assign_req,
                   rolled_back, clock, tokens, blacklist, proxy_vars>>

\* Time passes.
ClockTick ==
  /\ clock < MaxClock
  /\ clock' = clock + 1
  /\ UNCHANGED <<today, classes, enrollments, req, seat_kept, schedules, assign_req,
                 rolled_back, tokens, blacklist, reached, proxy_vars>>

\* The clock: a day passes.
Tick ==
  /\ today < MaxDay
  /\ today' = today + 1
  /\ UNCHANGED <<classes, enrollments, req, seat_kept,
                 schedules, assign_req, rolled_back, auth_vars, proxy_vars>>

\* The days of a term the clock stops at: the first days, the last day of
\* the cancellation window of a class that starts on day 1 and the day
\* after it, the last day of the year and the first day of the next.
TermDays ==
  {0, 1, 2, 1 + CancellationGraceDays, 2 + CancellationGraceDays, 121, 122}

\* The clock: days pass without a request.
DaysPass ==
  /\ \E d \in TermDays : d > today /\ today' = d
  /\ UNCHANGED <<classes, enrollments, req, seat_kept, schedules, assign_req,
                 rolled_back, auth_vars, proxy_vars>>

\* ---------------------------------------------------------------- roles
\* User.user_type of the account behind a request.
UserTypes == {UserType.STUDENT, UserType.TEACHER, UserType.MANAGER}

\* What token_required answers for a request: "OK" when it calls the
\* wrapped function with the current user.
TokenAnswers == {"UNAUTHORIZED", "TOKEN_REVOKED", "USER_NOT_FOUND", "OK"}

\* A decorator that lets every authenticated user through.
role_required_any_role(allowed_roles, authenticated, user_type) == authenticated

\* role_required(*allowed_roles): wrapped in token_required, the handler
\* runs only on "OK". A user of another role is answered
\* INSUFFICIENT_PERMISSIONS; building that answer reads department_name,
\* which is bound only for a user with a teacher or student profile, so for
\* a manager the exception is caught by token_required and answered
\* TOKEN_VALIDATION_FAILED.
role_required(allowed_roles, authenticated, user_type) ==
  IF authenticated # "OK" THEN authenticated
  ELSE IF user_type \notin allowed_roles
    THEN IF user_type = UserType.MANAGER THEN "TOKEN_VALIDATION_FAILED"
         ELSE "INSUFFICIENT_PERMISSIONS"
  ELSE "OK"

student_required == {UserType.STUDENT}

manager_required == {UserType.MANAGER}

\* POST /student/enroll behind @student_required.
enroll_course_route(authenticated, user_type) ==
  /\ role_required(student_required, authenticated, user_type) = "OK"
  /\ Enroll

\* POST /student/cancel-enrollment behind @student_required.
cancel_enrollment_route(authenticated, user_type) ==
  /\ role_required(student_required, authenticated, user_type) = "OK"
  /\ Cancel

\* POST /manager/create-class behind @manager_required, for two-seat
\* classes of course 1.
create_class_route(authenticated, user_type) ==
  /\ role_required(manager_required, authenticated, user_type) = "OK"
  /\ CreateClassTerm

\* POST /manager/assign-teacher behind @manager_required.
assign_teacher_route(authenticated, user_type) ==
  /\ role_required(manager_required, authenticated, user_type) = "OK"
  /\ AssignTeacher

\* The grade update behind @manager_required.
update_student_grade_route(authenticated, user_type) ==
  /\ role_required(manager_required, authenticated, user_type) = "OK"
  /\ Finalize

EnrollRoute ==
  \E authenticated \in TokenAnswers, user_type \in UserTypes :
    enroll_course_route(authenticated, user_type)

CancelRoute ==
  \E authenticated \in TokenAnswers, user_type \in UserTypes :
    cancel_enrollment_route(authenticated, user_type)

CreateClassRoute ==
  \E authenticated \in TokenAnswers, user_type \in UserTypes :
    create_class_route(authenticated, user_type)

AssignTeacherRoute ==
  \E authenticated \in TokenAnswers, user_type \in UserTypes :
    assign_teacher_route(authenticated, user_type)

FinalizeRoute ==
  \E authenticated \in TokenAnswers, user_type \in UserTypes :
    update_student_grade_route(authenticated, user_type)

\* ------------------------------------------------------------- tool proxy
\* The key of the proxy (environment MCP_API_KEY) and a key that is not it.
MCP_API_KEY == "super-secret-key"

KeyInputs == {MCP_API_KEY, "other-key"}

\* args["approval_id"] of a tool call: 0 when it carries none, a key of
\* APPROVALS, or an id the store does not hold.
ApprovalIdInputs == 0..(MaxApprovals + 1)

\* check_api_key: the bearer token or the X-MCP-API-KEY header equals the key.
check_api_key(key) == key = MCP_API_KEY

\* A test that accepts any record the store holds, approved or pending.
is_approved_if_present(approval_id) == approval_id \in 1..Len(APPROVALS)

\* Lines 176 and 202: the call carries an approval_id, the store holds it
\* and its record has approved == True.
is_approved(approval_id) ==
  /\ approval_id # 0
  /\ approval_id \in 1..Len(APPROVALS)
  /\ APPROVALS[approval_id].approved = TRUE

\* Lines 177-178 and 203-204: a new pending record under a fresh uuid. The
\* args and created_at of the record are not kept: no code reads them.
requires_approval(action) ==
  /\ Len(APPROVALS) < MaxApprovals
  /\ APPROVALS' = Append(APPROVALS, [action |-> action, approved |-> FALSE])
  /\ UNCHANGED forwarded

\* call_target: one request sent to the backend; approval_id is the id the
\* tool call was let through with (0: none was asked for).
call_target(path, approval_id) ==
  /\ Len(forwarded) < MaxForwarded
  /\ forwarded' = Append(forwarded, [path |-> path, approval_id |-> approval_id])
  /\ UNCHANGED APPROVALS

tool_student_enroll(approval_id) ==
  IF ~is_approved(approval_id)
    THEN requires_approval("student.enroll")
    ELSE call_target("api/student/enroll", approval_id)

tool_manager_create_class(approval_id) ==
  IF ~is_approved(approval_id)
    THEN requires_approval("manager.create_class")
    ELSE call_target("api/manager/create-class", approval_id)

\* A tool that needs no approval and reads no approval_id.
tool_manager_assign_teacher(approval_id) ==
  call_target("api/manager/assign-teacher", 0)

\* The tools of TOOLS that send a write to the backend's class and
\* enrollment handlers.
TOOLS == {"student.enroll", "manager.create_class", "manager.assign_teacher"}

\* POST /mcp/call: the key check, the lookup of the tool and its call.
mcp_call(key, tool_name, approval_id) ==
  /\ check_api_key(key)
  /\ tool_name \in TOOLS
  /\ CASE tool_name = "student.enroll" -> tool_student_enroll(approval_id)
       [] tool_name = "manager.create_class" -> tool_manager_create_class(approval_id)
       [] tool_name = "manager.assign_teacher" -> tool_manager_assign_teacher(approval_id)
  /\ UNCHANGED <<today, classes, enrollments, req, seat_kept, schedules, assign_req,
                 rolled_back, auth_vars>>

McpCall ==
  \E key \in KeyInputs, tool_name \in TOOLS \cup {"manager.delete_class"},
     approval_id \in ApprovalIdInputs :
    mcp_call(key, tool_name, approval_id)

\* POST /approvals/<approval_id>/approve with the header X-Manager-Key.
\* The timestamps created_at and approved_at are not kept.
approve(approval_id, x_manager_key) ==
  /\ x_manager_key = MCP_API_KEY
  /\ approval_id \in 1..Len(APPROVALS)
  /\ APPROVALS' = [APPROVALS EXCEPT ![approval_id].approved = TRUE]
  /\ UNCHANGED <<today, classes, enrollments, req, seat_kept, schedules, assign_req,
                 rolled_back, auth_vars, forwarded>>

Approve ==
  \E approval_id \in ApprovalIdInputs, x_manager_key \in KeyInputs :
    approve(approval_id, x_manager_key)

\* ---------------------------------------------------------- specification
\* Requests served one at a time, each from its first line to its response.
Next == CreateClass \/ Enroll \/ Cancel \/ Finalize \/ Tick

Spec == Init /\ [][Next]_vars

\* Enroll and Cancel requests only, one at a time.
NextEnrollCancel == CreateClass \/ Enroll \/ Cancel \/ Tick

SpecEnrollCancel == Init /\ [][NextEnrollCancel]_vars

\* Enroll and Cancel requests served in parallel.
NextConc == CreateClass \/ EnrollBegin \/ EnrollEnd \/ CancelBegin \/ CancelEnd

SpecConc == Init /\ [][NextConc]_vars

\* Enroll and Cancel requests served in parallel, with commits that may be
\* lost to a storage failure.
NextConcFail ==
  \/ CreateClass \/ EnrollBegin \/ EnrollEnd \/ CancelBegin \/ CancelEnd
  \/ EnrollRollback \/ CancelRollback

SpecConcFail == Init /\ [][NextConcFail]_vars

\* Enroll and Cancel requests served in parallel with gradings.
NextConcGrade ==
  \/ CreateClass \/ EnrollBegin \/ EnrollEnd \/ CancelBegin \/ CancelEnd
  \/ Finalize

SpecConcGrade == Init /\ [][NextConcGrade]_vars

\* Classes with schedules and teacher assignments, one request at a time.
NextTeach == CreateClassScheduled \/ AssignTeacher

SpecTeach == Init /\ [][NextTeach]_vars

\* Teacher assignments served in parallel.
NextTeachConc == CreateClassScheduled \/ AssignTeacherBegin \/ AssignTeacherEnd

SpecTeachConc == Init /\ [][NextTeachConc]_vars

\* A class over its term: enrollments, cancellations and status updates,
\* one request at a time.
NextTerm == CreateClassTerm \/ Enroll \/ Cancel \/ UpdateClassStatus \/ DaysPass

SpecTerm == Init /\ [][NextTerm]_vars

\* Logins, logouts and requests with access tokens.
NextAuth == login \/ Logout \/ Request \/ ClockTick

SpecAuth == Init /\ [][NextAuth]_vars

\* The state-changing routes behind their decorators, requested by users of
\* every role, one request at a time, on one day.
NextRoles ==
  CreateClassRoute \/ EnrollRoute \/ CancelRoute \/ AssignTeacherRoute \/ FinalizeRoute

SpecRoles == Init /\ [][NextRoles]_vars

\* The tool proxy: tool calls and approvals, one request at a time.
NextProxy == McpCall \/ Approve

SpecProxy == Init /\ [][NextProxy]_vars

TypeOK ==
  /\ today \in 0..MaxDay
  /\ Len(classes) <= Max(MaxClasses, MaxScheduledClasses)
  /\ Len(schedules) = Len(classes)
  /\ \A p \in Pairs : Len(enrollments[p]) <= 2

\* ------------------------------------------------------------------ claims
Registered(cid) == RowsWithStatus(cid, EnrollmentStatus.REGISTERED)

SeatsKept(cid) == Cardinality({ eid \in seat_kept : eid[2] = cid })

Terminal(row) == row.status \in {"Completed", "Failed"}

AllIdle == \A p \in Procs : req[p].pc = "idle"

\* C1 as stated: in every state reached by create_class, Enroll, Cancel and
\* Finalize requests run one after the other, every class's
\* current_enrollment equals the number of its Registered enrollments.
C1_CounterEqualsRegistered ==
  \A cid \in 1..Len(classes) : classes[cid].current_enrollment = Registered(cid)

\* C1 amended: every class's current_enrollment equals the number of its
\* Registered enrollments plus the number of its enrollments that Finalize
\* graded while they were Registered (Finalize leaves the counter alone).
C1_CounterEqualsSeats ==
  \A cid \in 1..Len(classes) :
    classes[cid].current_enrollment = Registered(cid) + SeatsKept(cid)

\* A class that holds a Registered enrollment next to a graded one.
C1_Witness ==
  \E cid \in 1..Len(classes) :
    /\ Registered(cid) = 1 /\ SeatsKept(cid) = 1
    /\ classes[cid].current_enrollment = 2

\* C2: a request that read current_enrollment = max_capacity - 1 and commits
\* after another request has taken that last seat is rejected (never two
\* successes); one that commits while the seat is still free succeeds (never
\* zero successes).
C2_ExactlyOneSuccess ==
  [][\A p \in Procs, cid \in 1..Len(classes) :
       (/\ enroll_course_end(p)
        /\ req[p].class_id = cid
        /\ req[p].read = classes[cid].max_capacity - 1)
       => IF classes[cid].current_enrollment >= classes[cid].max_capacity
            THEN UNCHANGED <<classes, enrollments>>
            ELSE enroll_course_commit_code(req[p].student_id, cid, SnapOf(req[p])) = "OK"
                 => Registered(cid)' = Registered(cid) + 1]_vars

\* C3: once all concurrent Enroll and Cancel requests have finished, every
\* class's current_enrollment equals the number of its Registered
\* enrollments and lies in 0..max_capacity.
C3_CapacityInvariant ==
  AllIdle =>
    \A cid \in 1..Len(classes) :
      /\ classes[cid].current_enrollment = Registered(cid)
      /\ 0 <= classes[cid].current_enrollment
      /\ classes[cid].current_enrollment <= classes[cid].max_capacity

\* C4: once the enrollment of a (student, class) pair is Completed or
\* Failed, an Enroll and a Cancel for the pair are both rejected, and no
\* Enroll or Cancel step changes the row or, for that pair, the counter.
C4_TerminalImmutable ==
  /\ [](\A s \in Students, cid \in 1..Len(classes) :
          (\E k \in 1..Len(enrollments[<<s, cid>>]) :
             Terminal(enrollments[<<s, cid>>][k]))
          => /\ enroll_course_check(s, cid) # "OK"
             /\ cancel_enrollment_check(s, cid) # "OK")
  /\ [][\A s \in Students, cid \in 1..Len(classes) :
          (/\ enroll_course(s, cid) \/ cancel_enrollment(s, cid)
           /\ \E k \in 1..Len(enrollments[<<s, cid>>]) :
                Terminal(enrollments[<<s, cid>>][k]))
          => UNCHANGED <<classes, enrollments>>]_vars

\* A graded enrollment in a class that still has a free seat and whose
\* registration is open: only the row's status stands against an Enroll.
C4_Witness ==
  \E s \in Students, cid \in 1..Len(classes) :
    /\ Len(enrollments[<<s, cid>>]) = 1
    /\ Terminal(enrollments[<<s, cid>>][1])
    /\ enroll_course_check(s, cid) = "COURSE_COMPLETED"
    /\ cancel_enrollment_check(s, cid) = "NOT_ENROLLED"

\* C5: Finalize changes an enrollment only when its status is Registered.
C5_FinalizeOnlyRegistered ==
  [][\A s \in Students, cid \in ClassIds, k \in 1..2, score \in ScoreInputs :
       update_student_grade(<<s, cid, k>>, score)
       => Row(<<s, cid, k>>).status = EnrollmentStatus.REGISTERED]_vars

\* The enrollment as it is stored after a grade request.
RowAfterGrade(eid, score) ==
  IF update_student_grade_check(eid, score) = "OK"
    THEN Graded(Row(eid), score) ELSE Row(eid)

\* C6: for every score in [0, 10] a grade request stores the score, the
\* letter grade (A from 8.5, B from 7.0, C from 5.5, D from 4.0, else F) and
\* the status (Completed for A-D, Failed for F).
C6_GradeMapping ==
  \A eid \in EnrollmentIds, score \in ScoreInputs :
    (0 <= score /\ score <= 10000)
    => LET grade == IF score >= 8500 THEN "A" ELSE IF score >= 7000 THEN "B"
                    ELSE IF score >= 5500 THEN "C" ELSE IF score >= 4000 THEN "D"
                    ELSE "F"
           row == RowAfterGrade(eid, score)
       IN /\ row.score = Some(score)
          /\ row.grade = Some(grade)
          /\ row.status = IF grade = "F" THEN "Failed" ELSE "Completed"

\* C7: a grade request is accepted for every score in [0, 10], 0 and 10
\* included, and answered INVALID_SCORE for every score outside.
C7_ScoreRange ==
  \A eid \in EnrollmentIds, score \in ScoreInputs :
    IF 0 <= score /\ score <= 10000
      THEN update_student_grade_check(eid, score) = "OK"
      ELSE update_student_grade_check(eid, score) = "INVALID_SCORE"

\* C8: Enroll, Cancel, Enroll by one student on one class: the first Enroll
\* stores one Registered row and adds 1 to the counter, the Cancel keeps the
\* row and takes 1 off, the second Enroll reuses the row (still one row,
\* Registered) and adds 1: one row, Registered, the counter 1 higher.
C8_ReEnrollment ==
  [][\A s \in Students, cid \in 1..Len(classes) :
       LET rows == enrollments[<<s, cid>>]
           counter == classes[cid].current_enrollment
       IN
       /\ enroll_course(s, cid)
          => /\ Len(rows) <= 1
             /\ Len(enrollments'[<<s, cid>>]) = 1
             /\ enrollments'[<<s, cid>>][1].status = EnrollmentStatus.REGISTERED
             /\ classes'[cid].current_enrollment = counter + 1
       /\ cancel_enrollment(s, cid)
          => /\ Len(enrollments'[<<s, cid>>]) = Len(rows)
             /\ enrollments'[<<s, cid>>][1].status = EnrollmentStatus.CANCELLED
             /\ classes'[cid].current_enrollment = counter - 1]_vars

\* The state after Enroll, Cancel, Enroll: the only row of the pair is
\* Registered again (a cleared cancellation_date marks the second Enroll)
\* and it is the one seat taken in the class.
C8_Witness ==
  \E s \in Students, cid \in 1..Len(classes) :
    /\ Len(enrollments[<<s, cid>>]) = 1
    /\ enrollments[<<s, cid>>][1].status = EnrollmentStatus.REGISTERED
    /\ enrollments[<<s, cid>>][1].cancellation_date = None
    /\ classes[cid].current_enrollment = 1

\* The class of the scenario: one seat, open, of a course of the students'
\* department, with the period and date checks of Enroll and Cancel passing.
ScenarioClass(cid, s, s2) ==
  /\ s # s2
  /\ classes[cid].max_capacity = 1
  /\ classes[cid].status = ClassStatus.OPEN
  /\ StudentDepartment(s) = CourseDepartment(classes[cid].course_id)
  /\ StudentDepartment(s2) = CourseDepartment(classes[cid].course_id)
  /\ validate_class_timing_constraints(classes[cid], UserType.STUDENT, today) = "OK"

HasStatus(s, cid, st) ==
  /\ Len(enrollments[<<s, cid>>]) = 1
  /\ enrollments[<<s, cid>>][1].status = st

\* C9: on such a class with current_enrollment = 0, Enroll(S) succeeds and
\* leaves current_enrollment = 1; then Enroll(S2) is answered CLASS_FULL;
\* then Cancel(S) succeeds and leaves current_enrollment = 0; then
\* Enroll(S2) succeeds.
C9_Scenario ==
  /\ [](\A s, s2 \in Students, cid \in 1..Len(classes) :
          ScenarioClass(cid, s, s2) =>
            /\ (/\ classes[cid].current_enrollment = 0
                /\ enrollments[<<s, cid>>] = <<>>)
               => enroll_course_check(s, cid) = "OK"
            /\ (/\ classes[cid].current_enrollment = 1
                /\ HasStatus(s, cid, EnrollmentStatus.REGISTERED))
               => /\ enroll_course_check(s2, cid) = "CLASS_FULL"
                  /\ cancel_enrollment_check(s, cid) = "OK"
            /\ (/\ classes[cid].current_enrollment = 0
                /\ HasStatus(s, cid, EnrollmentStatus.CANCELLED)
                /\ enrollments[<<s2, cid>>] = <<>>)
               => enroll_course_check(s2, cid) = "OK")
  /\ [][\A s, s2 \in Students, cid \in 1..Len(classes) :
          ScenarioClass(cid, s, s2) =>
            /\ (enroll_course(s, cid) /\ classes[cid].current_enrollment = 0)
               => /\ classes'[cid].current_enrollment = 1
                  /\ HasStatus(s, cid, EnrollmentStatus.REGISTERED)'
            /\ (cancel_enrollment(s, cid) /\ classes[cid].current_enrollment = 1)
               => /\ classes'[cid].current_enrollment = 0
                  /\ HasStatus(s, cid, EnrollmentStatus.CANCELLED)']_vars

\* The end of the scenario: S cancelled, S2 holds the one seat.
C9_Witness ==
  \E s, s2 \in Students, cid \in 1..Len(classes) :
    /\ ScenarioClass(cid, s, s2)
    /\ HasStatus(s, cid, EnrollmentStatus.CANCELLED)
    /\ HasStatus(s2, cid, EnrollmentStatus.REGISTERED)
    /\ classes[cid].current_enrollment = 1

\* C10: at any time, requests running in parallel included, the table holds
\* at most one enrollment row per (student, class) pair.
C10_OneRowPerPair ==
  \A p \in Pairs : Len(enrollments[p]) <= 1

\* Two Enroll requests of one student for one class in parallel: one found
\* no row and is about to insert, the other has inserted its row meanwhile.
C10_Witness ==
  \E p \in Procs :
    /\ req[p].pc = "pending" /\ req[p].op = "enroll" /\ req[p].existing = 0
    /\ Len(enrollments[<<req[p].student_id, req[p].class_id>>]) = 1

\* The reason the checks would give if the department checks came before
\* the timing checks: class status, capacity, student department, course
\* department, department match, then period / registration date.
ReasonDepartmentFirst(s, cid) ==
  LET class_obj == classes[cid]
      timing == validate_class_timing_constraints(class_obj, UserType.STUDENT, today)
  IN
  IF class_obj.status # ClassStatus.OPEN THEN "CLASS_NOT_OPEN"
  ELSE IF class_obj.current_enrollment >= class_obj.max_capacity THEN "CLASS_FULL"
  ELSE IF StudentDepartment(s) = 0 THEN "STUDENT_NO_DEPARTMENT"
  ELSE IF CourseDepartment(class_obj.course_id) = 0 THEN "COURSE_NO_DEPARTMENT"
  ELSE IF StudentDepartment(s) # CourseDepartment(class_obj.course_id)
    THEN "DEPARTMENT_MISMATCH"
  ELSE IF timing # "OK" THEN timing
  ELSE "ELIGIBLE"

\* C11: an Enroll request that fails one or more eligibility checks is
\* answered with the reason of the first failing check in the order class
\* not found, class not open, class full, student without department,
\* course without department, department mismatch, and only then wrong
\* period / registration closed.
C11_CheckOrder ==
  /\ \A s \in Students : enroll_course_check(s, Len(classes) + 1) = "CLASS_NOT_FOUND"
  /\ \A s \in Students, cid \in 1..Len(classes) :
       ReasonDepartmentFirst(s, cid) # "ELIGIBLE"
       => enroll_course_check(s, cid) = ReasonDepartmentFirst(s, cid)

DepartmentsDiffer(s, cid) ==
  /\ StudentDepartment(s) # 0
  /\ CourseDepartment(classes[cid].course_id) # 0
  /\ StudentDepartment(s) # CourseDepartment(classes[cid].course_id)

WrittenRegistered(s, cid) ==
  /\ enrollments'[<<s, cid>>] # enrollments[<<s, cid>>]
  /\ \E k \in 1..Len(enrollments'[<<s, cid>>]) :
       /\ enrollments'[<<s, cid>>][k].status = EnrollmentStatus.REGISTERED
       /\ (k > Len(enrollments[<<s, cid>>])
           \/ enrollments[<<s, cid>>][k] # enrollments'[<<s, cid>>][k])

\* C13: a rejected Enroll changes nothing. The step that ends a request
\* whose commit is refused leaves classes and enrollments as they were; a
\* row is stored or set to Registered only by the commit of an Enroll
\* request that passed every check and whose commit is accepted, and a class
\* row changes only at the commit of a request that passed every check (for
\* an Enroll: an accepted commit).
C13_RejectedEnrollNoEffect ==
  /\ [][\A p \in Procs :
          (/\ enroll_course_end(p)
           /\ enroll_course_commit_code(req[p].student_id, req[p].class_id,
                                        SnapOf(req[p])) # "OK")
          => UNCHANGED <<classes, enrollments>>]_vars
  /\ [][\A s \in Students, cid \in 1..Len(classes) :
          WrittenRegistered(s, cid)
          => \E p \in Procs :
               /\ enroll_course_end(p)
               /\ req[p].student_id = s /\ req[p].class_id = cid
               /\ enroll_course_commit_code(s, cid, SnapOf(req[p])) = "OK"]_vars
  /\ [][\A cid \in 1..Len(classes) :
          classes'[cid] # classes[cid]
          => \E p \in Procs :
               /\ req[p].pc = "pending" /\ req[p].class_id = cid
               /\ req'[p] = Idle
               /\ req[p].op = "enroll"
                  => enroll_course_commit_code(req[p].student_id, cid,
                                               SnapOf(req[p])) = "OK"]_vars

\* A request whose insert is about to be refused: it found no row, the row
\* is there now, and the counter has moved on from the value it read.
C13_Witness ==
  \E p \in Procs :
    /\ req[p].pc = "pending" /\ req[p].op = "enroll"
    /\ enroll_course_commit_code(req[p].student_id, req[p].class_id,
                                 SnapOf(req[p])) = "ENROLL_FAILED"
    /\ classes[req[p].class_id].current_enrollment = req[p].read + 1

HasRegistered(s, cid) ==
  \E k \in 1..Len(enrollments[<<s, cid>>]) :
    enrollments[<<s, cid>>][k].status = EnrollmentStatus.REGISTERED

\* The class passes every eligibility check for the student.
Eligible(s, cid) == ReasonDepartmentFirst(s, cid) = "ELIGIBLE"

\* C14: an Enroll by a student who holds a Registered enrollment in the
\* class is rejected, no Enroll step of that pair happens (so neither the
\* row nor the counter changes), and when the class passes every eligibility
\* check the answer is ALREADY_ENROLLED.
C14_AlreadyEnrolled ==
  /\ [](\A s \in Students, cid \in 1..Len(classes) :
          HasRegistered(s, cid)
          => /\ enroll_course_check(s, cid) # "OK"
             /\ Eligible(s, cid) => enroll_course_check(s, cid) = "ALREADY_ENROLLED")
  /\ [][\A s \in Students, cid \in 1..Len(classes) :
          HasRegistered(s, cid) => ~enroll_course(s, cid)]_vars

\* A Registered student of a class that still has a free seat.
C14_Witness ==
  \E s \in Students, cid \in 1..Len(classes) :
    /\ HasRegistered(s, cid)
    /\ Eligible(s, cid)
    /\ classes[cid].current_enrollment < classes[cid].max_capacity
    /\ enroll_course_check(s, cid) = "ALREADY_ENROLLED"

C16_CancelFloorsAtZero ==
  /\ [](\A cid \in 1..Len(classes) : classes[cid].current_enrollment >= 0)
  /\ [][\A p \in Procs, cid \in 1..Len(classes) :
          (cancel_enrollment_end(p) /\ req[p].class_id = cid)
          => LET pair == <<req[p].student_id, cid>>
                 counter == classes[cid].current_enrollment
             IN /\ enrollments'[pair][req[p].existing].status = EnrollmentStatus.CANCELLED
                /\ enrollments'[pair][req[p].existing].cancellation_date = Some(Now)
                /\ req[p].read = counter
                   => classes'[cid].current_enrollment =
                        IF counter = 0 THEN 0 ELSE counter - 1]_vars

\* A Cancel about to commit on a class whose counter is 0 while the student's
\* row is Registered: the counter is below the number of Registered rows.
C16_Witness ==
  \E p \in Procs :
    /\ req[p].pc = "pending" /\ req[p].op = "cancel"
    /\ req[p].read = 0
    /\ classes[req[p].class_id].current_enrollment = 0
    /\ HasRegistered(req[p].student_id, req[p].class_id)

\* C17: a grade request changes only the score, grade and status of its
\* enrollment; every class row (current_enrollment included), every other
\* enrollment and the other columns of the graded row stay as they were.
C17_FinalizeFrame ==
  [][\A eid \in EnrollmentIds, score \in ScoreInputs :
       update_student_grade(eid, score)
       => /\ classes' = classes
          /\ \A other \in EnrollmentIds :
               other # eid => Row(other)' = Row(other)
          /\ \A p \in Pairs : Len(enrollments'[p]) = Len(enrollments[p])
          /\ Row(eid)' = [Row(eid) EXCEPT !.score = Row(eid)'.score,
                                          !.grade = Row(eid)'.grade,
                                          !.status = Row(eid)'.status]]_vars

\* A graded enrollment next to a Registered one of another student, the
\* class counting both seats.
C17_Witness ==
  \E s, s2 \in Students, cid \in 1..Len(classes) :
    /\ HasStatus(s, cid, EnrollmentStatus.Failed)
    /\ enrollments[<<s, cid>>][1].score # None
    /\ HasStatus(s2, cid, EnrollmentStatus.REGISTERED)
    /\ enrollments[<<s2, cid>>][1].score = None
    /\ classes[cid].max_capacity = 2

\* The minutes of the day a Schedule row covers: the half-open interval
\* [start_time, end_time).
Minutes(schedule) == schedule.start_time..(schedule.end_time - 1)

\* Two rows on the same day of week that share a minute.
Overlap(a, b) ==
  /\ a.day_of_week = b.day_of_week
  /\ \E m \in Minutes(a) : m \in Minutes(b)

AllSchedules == UNION { schedules[c] : c \in 1..Len(schedules) }

\* C18: for stored schedules whose start precedes their end, the test of
\* assign_teacher declares a conflict exactly when the two are on the same
\* day of week and their half-open intervals share a minute: 08:00-10:00 and
\* 10:00-12:00 do not conflict, 08:00-10:01 and 10:00-12:00 do, and
\* schedules on different days never do.
C18_OverlapTest ==
  /\ \A a \in AllSchedules, b \in AllSchedules :
       /\ a.day_of_week # b.day_of_week => ~time_conflict(a, b)
       /\ (a.start_time < a.end_time /\ b.start_time < b.end_time)
          => (time_conflict(a, b) <=> Overlap(a, b))
  /\ ~time_conflict(NewSchedule(Slot("Monday", 8, 0, 10, 0)),
                    NewSchedule(Slot("Monday", 10, 0, 12, 0)))
  /\ time_conflict(NewSchedule(Slot("Monday", 8, 0, 10, 1)),
                   NewSchedule(Slot("Monday", 10, 0, 12, 0)))
  /\ ~time_conflict(NewSchedule(Slot("Tuesday", 8, 0, 10, 0)),
                    NewSchedule(Slot("Monday", 8, 0, 10, 1)))

SameTerm(c1, c2) ==
  /\ classes[c1].semester = classes[c2].semester
  /\ classes[c1].academic_year = classes[c2].academic_year

\* One teacher holds both a class taught 08:00-10:00 and a class of the
\* same term taught 10:00-12:00 on the same day: the touching slots were
\* accepted.
C18_Witness ==
  \E c1, c2 \in 1..Len(classes) :
    /\ c1 # c2 /\ SameTerm(c1, c2)
    /\ classes[c1].teacher_id # None
    /\ classes[c1].teacher_id = classes[c2].teacher_id
    /\ schedules[c1] = { NewSchedule(Slot("Monday", 8, 0, 10, 0)) }
    /\ schedules[c2] = { NewSchedule(Slot("Monday", 10, 0, 12, 0)) }

\* Two distinct classes of one term, held by the same teacher, with
\* schedules that overlap.
DoubleBooked(c1, c2) ==
  /\ c1 # c2 /\ SameTerm(c1, c2)
  /\ classes[c1].teacher_id # None
  /\ classes[c1].teacher_id = classes[c2].teacher_id
  /\ \E a \in schedules[c1], b \in schedules[c2] : Overlap(a, b)

\* C19: after any sequence of create_class and assign_teacher requests, no
\* teacher holds two distinct classes of the same semester and academic year
\* whose schedules overlap on a day of week.
C19_NoDoubleBooking ==
  \A c1, c2 \in 1..Len(classes) : ~DoubleBooked(c1, c2)

\* A teacher holds one class and is refused the other, which overlaps it by
\* a minute.
C19_Witness ==
  \E c1, c2 \in 1..Len(classes), teacher_id \in Teachers :
    /\ c1 # c2 /\ SameTerm(c1, c2)
    /\ classes[c1].teacher_id = Some(teacher_id)
    /\ classes[c2].teacher_id = None
    /\ \E a \in schedules[c1], b \in schedules[c2] : Overlap(a, b)
    /\ assign_teacher_check(c2, teacher_id) = "SCHEDULE_CONFLICT"

\* C20: with assign_teacher requests running in parallel, once they have
\* all finished no teacher holds two distinct classes of one term whose
\* schedules overlap: of two requests for overlapping classes at most one
\* assigns the teacher.
C20_AtomicAssign ==
  (\A p \in Procs : assign_req[p].pc = "idle")
  => \A c1, c2 \in 1..Len(classes) : ~DoubleBooked(c1, c2)

\* C21: assign_teacher answers with a success acknowledgement exactly when
\* it has committed teacher_id = the requested teacher, and whenever it
\* answers with an error (ASSIGN_TEACHER_FAILED included) teacher_id is the
\* same as before the request.
C21_AckIffCommitted ==
  [][\A cid \in 1..Len(classes), teacher_id \in Teachers :
       assign_teacher(cid, teacher_id)
       => IF assign_teacher_response(cid, teacher_id) = "OK"
            THEN classes'[cid].teacher_id = Some(teacher_id)
            ELSE classes'[cid].teacher_id = classes[cid].teacher_id]_vars


\* The answer of the department checks of assign_teacher alone.
DepartmentReason(cid, teacher_id) ==
  IF TeacherDepartment(teacher_id) = 0 THEN "TEACHER_NO_DEPARTMENT"
  ELSE IF CourseDepartment(classes[cid].course_id) = 0 THEN "COURSE_NO_DEPARTMENT"
  ELSE IF TeacherDepartment(teacher_id) # CourseDepartment(classes[cid].course_id)
    THEN "DEPARTMENT_MISMATCH"
  ELSE "SAME_DEPARTMENT"

\* C22: after any sequence of assign_teacher requests, every class with a
\* teacher has a teacher whose department is set and equal to the set
\* department of the class's course; a request whose teacher or course has
\* no department, or whose departments differ, is answered
\* TEACHER_NO_DEPARTMENT / COURSE_NO_DEPARTMENT / DEPARTMENT_MISMATCH
\* whatever the schedules are, and does not change teacher_id.
C22_DepartmentInvariant ==
  /\ [](\A cid \in 1..Len(classes) :
          /\ classes[cid].teacher_id # None
             => /\ TeacherDepartment(classes[cid].teacher_id[1]) # 0
                /\ TeacherDepartment(classes[cid].teacher_id[1])
                     = CourseDepartment(classes[cid].course_id)
          /\ \A teacher_id \in Teachers :
               DepartmentReason(cid, teacher_id) # "SAME_DEPARTMENT"
               => assign_teacher_check(cid, teacher_id) = DepartmentReason(cid, teacher_id))
  /\ [][\A cid \in 1..Len(classes), teacher_id \in Teachers :
          (assign_teacher(cid, teacher_id)
           /\ classes'[cid].teacher_id # classes[cid].teacher_id)
          => DepartmentReason(cid, teacher_id) = "SAME_DEPARTMENT"]_vars

\* A teacher holds a class of the own department; a second class, whose
\* schedule overlaps the first in the same term, belongs to a course of
\* another or of no department, and a teacher without department exists:
\* each of the three department answers is given.
C22_Witness ==
  \E c1, c2 \in 1..Len(classes), teacher_id \in Teachers :
    /\ classes[c1].teacher_id = Some(teacher_id)
    /\ has_schedule_conflict(teacher_id, c2)
    /\ assign_teacher_check(c2, teacher_id) \in {"DEPARTMENT_MISMATCH", "COURSE_NO_DEPARTMENT"}
    /\ \E t2 \in Teachers : assign_teacher_check(c2, t2) = "TEACHER_NO_DEPARTMENT"


\* C23: every class created by create_class starts Open, with
\* current_enrollment = 0 and no teacher, and has max_capacity >= 1 and
\* start_date < end_date; a request that violates one of these creates no
\* class and no schedule.
C23_CreatedClass ==
  [][Len(classes') > Len(classes)
     => LET class_obj == classes'[Len(classes')]
        IN /\ class_obj.status = ClassStatus.OPEN
           /\ class_obj.current_enrollment = 0
           /\ class_obj.teacher_id = None
           /\ class_obj.max_capacity >= 1
           /\ class_obj.start_date < class_obj.end_date
           /\ Len(schedules') = Len(classes')]_vars


\* The step stores the counter value the pending request r assigns.
CounterWritten(r) ==
  classes'[r.class_id].current_enrollment =
    IF r.op = "enroll" THEN r.read + 1
    ELSE IF Decremented(r.read) = r.read
      THEN classes[r.class_id].current_enrollment
    ELSE Decremented(r.read)

\* The step stores the enrollment row the pending request r writes.
RowWritten(r) ==
  LET rows == enrollments'[<<r.student_id, r.class_id>>] IN
  IF r.op = "enroll"
    THEN rows[IF r.existing = 0 THEN Len(rows) ELSE r.existing].status
           = EnrollmentStatus.REGISTERED
    ELSE rows[r.existing].status = EnrollmentStatus.CANCELLED

\* C24: when the commit of an Enroll or a Cancel fails, the store shows
\* neither the enrollment change nor the counter change: the step that ends
\* a request either leaves classes and enrollments as they were (the answer
\* is ENROLL_FAILED or CANCEL_ENROLLMENT_FAILED) or stores the enrollment
\* row together with the counter.
C24_CommitAllOrNothing ==
  [][\A p \in Procs :
       (req[p].pc = "pending" /\ req'[p] = Idle)
       => /\ (enroll_course_rollback(p) \/ cancel_enrollment_rollback(p))
             => UNCHANGED <<classes, enrollments>>
          /\ (req[p].op = "enroll"
              /\ enroll_course_commit_code(req[p].student_id, req[p].class_id,
                                           SnapOf(req[p])) # "OK")
             => UNCHANGED <<classes, enrollments>>
          /\ \/ UNCHANGED <<classes, enrollments>>
             \/ /\ CounterWritten(req[p]) /\ RowWritten(req[p])
                /\ rolled_back' = rolled_back]_vars

\* A commit of each handler has failed while the class held a Registered
\* enrollment and another request was between its reads and its commit.
C24_Witness ==
  /\ rolled_back = {"ENROLL_FAILED", "CANCEL_ENROLLMENT_FAILED"}
  /\ \E cid \in 1..Len(classes) :
       /\ classes[cid].current_enrollment = 1
       /\ Registered(cid) = 1
  /\ \E p \in Procs : req[p].pc = "pending"


C26_RevokedStaysRejected ==
  /\ \A jti \in 1..Len(tokens) :
       blacklist[jti] # None
       => /\ blacklist[jti][1] >= tokens[jti].exp
          /\ token_required(jti) # "OK"
          /\ clock < tokens[jti].exp => token_required(jti) = "TOKEN_REVOKED"
  /\ \A jti \in 1..MaxTokens : <<jti, TRUE>> \notin reached

\* A token that reached a handler, was then logged out and is presented
\* again in the last unit of time before it expires.
C26_Witness ==
  \E jti \in 1..Len(tokens) :
    /\ <<jti, FALSE>> \in reached
    /\ blacklist[jti] # None
    /\ clock + 1 = tokens[jti].exp
    /\ clock >= blacklist[jti][1] - JWT_ACCESS_TOKEN_EXPIRES + 1
    /\ token_required(jti) = "TOKEN_REVOKED"


\* C27: with Enroll and Cancel requests executed one at a time on classes
\* created by create_class, and no Finalize, every reachable state has
\* current_enrollment = the number of Registered enrollments of the class
\* and 0 <= current_enrollment <= max_capacity.
C27_CounterWithoutFinalize ==
  \A cid \in 1..Len(classes) :
    /\ classes[cid].current_enrollment = Registered(cid)
    /\ 0 <= classes[cid].current_enrollment
    /\ classes[cid].current_enrollment <= classes[cid].max_capacity

\* A class filled to its capacity of two, one of the seats by a student who
\* had cancelled and enrolled again.
C27_Witness ==
  \E cid \in 1..Len(classes) :
    /\ classes[cid].max_capacity = 2
    /\ classes[cid].current_enrollment = 2
    /\ Registered(cid) = 2
    /\ \E s \in Students :
         enrollments[<<s, cid>>][1].cancellation_date = None


\* C28: in every reachable state an enrollment's score is set exactly when
\* its grade is set, and exactly when its status is Completed or Failed: a
\* Registered or Cancelled enrollment carries no score or grade, so
\* cancel_enrollment never answers GRADE_ASSIGNED.
C28_ScoreGradeStatus ==
  /\ \A eid \in EnrollmentIds :
       /\ (Row(eid).score # None) <=> (Row(eid).grade # None)
       /\ (Row(eid).score # None)
          <=> Row(eid).status \in {EnrollmentStatus.COMPLETE, EnrollmentStatus.Failed}
  /\ \A s \in Students, cid \in 1..Len(classes) :
       cancel_enrollment_check(s, cid) # "GRADE_ASSIGNED"


\* C29: an Enroll is accepted only when the class's semester and academic
\* year equal the current academic period and the class's start_date is
\* strictly later than the current date; on the start_date itself it is
\* answered REGISTRATION_CLOSED.
C29_EnrollBeforeStart ==
  [][\A s \in Students, cid \in 1..Len(classes) :
       enroll_course(s, cid)
       => /\ classes[cid].semester = get_current_semester(today)
          /\ classes[cid].academic_year = get_current_academic_year(today)
          /\ classes[cid].start_date > today]_vars


\* The student holds a Registered enrollment of the class without score and
\* without grade.
RegisteredUngraded(s, cid) ==
  /\ FirstRegistered(s, cid) # 0
  /\ enrollments[<<s, cid>>][FirstRegistered(s, cid)].score = None
  /\ enrollments[<<s, cid>>][FirstRegistered(s, cid)].grade = None

\* C30: a Cancel by a student with a Registered, ungraded enrollment
\* succeeds if and only if the class is Open or InProgress, the current date
\* is at most 14 days after start_date, and the class's semester and
\* academic year are the current ones; on day start_date + 15 the answer is
\* CANCELLATION_PERIOD_EXPIRED. A Cancel that succeeds sets the row to
\* Cancelled.
C30_CancelWindow ==
  /\ [](\A s \in Students, cid \in 1..Len(classes) :
          RegisteredUngraded(s, cid)
          => /\ cancel_enrollment_check(s, cid) = "OK"
                <=> /\ classes[cid].status \in {ClassStatus.OPEN, ClassStatus.IN_PROGRESS}
                    /\ today <= classes[cid].start_date + 14
                    /\ classes[cid].semester = get_current_semester(today)
                    /\ classes[cid].academic_year = get_current_academic_year(today)
             /\ (/\ today = classes[cid].start_date + 15
                 /\ classes[cid].status \in {ClassStatus.OPEN, ClassStatus.IN_PROGRESS})
                => cancel_enrollment_check(s, cid) = "CANCELLATION_PERIOD_EXPIRED")
  /\ [][\A s \in Students, cid \in 1..Len(classes) :
          cancel_enrollment(s, cid)
          => /\ cancel_enrollment_check(s, cid) = "OK"
             /\ enrollments'[<<s, cid>>][FirstRegistered(s, cid)].status
                  = EnrollmentStatus.CANCELLED]_vars

\* Day start_date + 14 of a class in progress: one student has cancelled,
\* the other is still Registered and may cancel.
C30_Witness ==
  \E cid \in 1..Len(classes), s, s2 \in Students :
    /\ today = classes[cid].start_date + 14
    /\ classes[cid].status = ClassStatus.IN_PROGRESS
    /\ RegisteredUngraded(s, cid)
    /\ cancel_enrollment_check(s, cid) = "OK"
    /\ HasStatus(s2, cid, EnrollmentStatus.CANCELLED)

\* C31: every enrollment in status Registered has a null cancellation_date:
\* a row newly created by Enroll has none and a re-enrolled row has it
\* cleared; only a row that is Cancelled, or was Cancelled and never
\* re-enrolled, carries a cancellation_date.
C31_RegisteredNoCancellationDate ==
  \A eid \in EnrollmentIds :
    Row(eid).status = EnrollmentStatus.REGISTERED
    => Row(eid).cancellation_date = None

C33_RequiredRole ==
  /\ [](\A authenticated \in TokenAnswers, user_type \in UserTypes :
         /\ role_required(student_required, authenticated, user_type) = "OK"
            <=> (authenticated = "OK" /\ user_type = UserType.STUDENT)
         /\ role_required(manager_required, authenticated, user_type) = "OK"
            <=> (authenticated = "OK" /\ user_type = UserType.MANAGER))
  /\ [][\A authenticated \in TokenAnswers, user_type \in UserTypes :
         /\ (enroll_course_route(authenticated, user_type)
             \/ cancel_enrollment_route(authenticated, user_type))
            => (authenticated = "OK" /\ user_type = UserType.STUDENT)
         /\ (create_class_route(authenticated, user_type)
             \/ assign_teacher_route(authenticated, user_type)
             \/ update_student_grade_route(authenticated, user_type))
            => (authenticated = "OK" /\ user_type = UserType.MANAGER)]_vars

\* Every one of the five handlers has run: a class with a teacher assigned
\* holds a graded enrollment next to a cancelled one.
C33_Witness ==
  \E cid \in 1..Len(classes), s, s2 \in Students :
    /\ classes[cid].teacher_id # None
    /\ HasStatus(s, cid, EnrollmentStatus.CANCELLED)
    /\ \E k \in 1..Len(enrollments[<<s2, cid>>]) :
         enrollments[<<s2, cid>>][k].score # None

\* The backend paths of the two tools that require an approval.
ApprovalPaths == {"api/student/enroll", "api/manager/create-class"}

\* C34: in the proxy a student.enroll or manager.create_class call is
\* forwarded to the backend only if it carries an approval_id whose record
\* in APPROVALS has approved = TRUE; a call without one creates a new
\* pending record and forwards nothing; approved becomes TRUE only through
\* the approve endpoint called with the manager key, and is never reset.
C34_ForwardedOnlyApproved ==
  /\ [](\A k \in 1..Len(forwarded) :
          forwarded[k].path \in ApprovalPaths
          => /\ forwarded[k].approval_id \in 1..Len(APPROVALS)
             /\ APPROVALS[forwarded[k].approval_id].approved = TRUE)
  /\ [][\A key \in KeyInputs, approval_id \in ApprovalIdInputs,
          tool_name \in {"student.enroll", "manager.create_class"} :
          mcp_call(key, tool_name, approval_id)
          => IF /\ approval_id \in 1..Len(APPROVALS)
                /\ APPROVALS[approval_id].approved = TRUE
               THEN /\ Len(forwarded') = Len(forwarded) + 1
                    /\ UNCHANGED APPROVALS
               ELSE /\ UNCHANGED forwarded
                    /\ Len(APPROVALS') = Len(APPROVALS) + 1
                    /\ APPROVALS'[Len(APPROVALS')].approved = FALSE
                    /\ APPROVALS'[Len(APPROVALS')].action = tool_name]_vars
  /\ [][\A i \in 1..Len(APPROVALS) :
          /\ APPROVALS[i].approved = TRUE => APPROVALS'[i].approved = TRUE
          /\ (APPROVALS[i].approved = FALSE /\ APPROVALS'[i].approved = TRUE)
             => /\ approve(i, MCP_API_KEY)
                /\ ~ \E key \in KeyInputs, tool_name \in TOOLS,
                        approval_id \in ApprovalIdInputs :
                        mcp_call(key, tool_name, approval_id)]_vars

\* An approved student.enroll call has been forwarded while another call is
\* still pending.
C34_Witness ==
  /\ \E k \in 1..Len(forwarded) :
       /\ forwarded[k].path = "api/student/enroll"
       /\ APPROVALS[forwarded[k].approval_id].action = "student.enroll"
  /\ \E i \in 1..Len(APPROVALS) : APPROVALS[i].approved = FALSE

\* The tool a backend path belongs to.
ToolOfPath(path) ==
  IF path = "api/student/enroll" THEN "student.enroll" ELSE "manager.create_class"

\* C35: in the proxy an approval authorizes only the request it was created
\* for: every forwarded student.enroll or manager.create_class call went
\* through on a record whose action is that tool, and no approved record
\* let more than one backend call through.
C35_ApprovalForItsRequestOnce ==
  /\ \A k \in 1..Len(forwarded) :
       forwarded[k].path \in ApprovalPaths
       => APPROVALS[forwarded[k].approval_id].action = ToolOfPath(forwarded[k].path)
  /\ \A k1, k2 \in 1..Len(forwarded) :
       (/\ k1 # k2
        /\ forwarded[k1].path \in ApprovalPaths
        /\ forwarded[k2].path \in ApprovalPaths)
       => forwarded[k1].approval_id # forwarded[k2].approval_id

====
